---- MODULE Spec2Model ----
(***************************************************************************)
(* Model of src/main.py: the /analyze-trade endpoint and its three rule    *)
(* evaluators (analyze_risk, analyze_costs_and_slippage, analyze_behavior) *)
(* together with the notification dispatcher send_feedback_to_nestjs.      *)
(*                                                                         *)
(* One behaviour of the model is the handling of one request: the request  *)
(* is chosen in Init, analyze_trade validates it and calls the evaluators  *)
(* one after the other.  Each evaluator is one action, its deliveries      *)
(* included; the outcome of every delivery is chosen nondeterministically. *)
(*                                                                         *)
(* Numbers.  The code computes with Python numbers.  The model draws all   *)
(* numeric inputs from small sets of integers and decides every ratio      *)
(* comparison (a / b > c) by cross multiplication, which is exact; on the  *)
(* values used here the floating point comparisons of the code give the    *)
(* same answers.                                                           *)
(*                                                                         *)
(* Optional fields.  A dict key that may be missing is modelled as a       *)
(* sequence: << >> when the key is absent, <<v>> when it holds v.          *)
(* Get(o, d) is dict.get(key, d).                                          *)
(***************************************************************************)
EXTENDS Integers, Sequences, FiniteSets, TLC

VARIABLES
    req,        \* the request body: portafolio, transaction, marketData
    pc,         \* position of analyze_trade
    calls,      \* the evaluators analyze_trade has called so far, in order
    attempts,   \* the notifications handed to requests.post, in order
    log,        \* what send_feedback_to_nestjs logged for each attempt
    response    \* what analyze_trade gave back to the caller

vars == <<req, pc, calls, attempts, log, response>>

(***************************************************************************)
(* Bounds of the model                                                     *)
(***************************************************************************)
MaxHoldings == 2

(***************************************************************************)
(* Program constants                                                       *)
(***************************************************************************)
\* SIMULATED_FEE_RATE = 0.005, in thousandths
SIMULATED_FEE_RATE_PER_MILLE == 5
\* SLIPPAGE_TOLERANCE = 0.001, in thousandths
SLIPPAGE_TOLERANCE_PER_MILLE == 1
\* the all-in rule: (tx_cost / cash_before_tx) > 0.90, in hundredths
ALL_IN_PERCENT == 90
\* the concentration rule: concentration > 60
CONCENTRATION_PERCENT == 60
\* the behaviour rules: price_change_24h > 0 (BUY), price_change_24h < 0 (SELL)
FOMO_THRESHOLD == 0
PANIC_THRESHOLD == 0

(***************************************************************************)
(* Helpers for optional fields and ratios                                  *)
(***************************************************************************)
Get(o, d) == IF Len(o) = 0 THEN d ELSE o[1]

\* num / den > a / b, for den # 0 and b > 0; false when den = 0, where the
\* quotient has no value.
RatioGT(num, den, a, b) ==
    IF den > 0 THEN num * b > a * den
    ELSE IF den < 0 THEN num * b < a * den
    ELSE FALSE

\* "not portafolio_id": None and the empty string are falsy
Falsy(idopt) == Len(idopt) = 0 \/ idopt[1] = ""

(***************************************************************************)
(* Notifications                                                           *)
(***************************************************************************)
Note(pid, kind, type, symbol) ==
    [portafolioId |-> pid, kind |-> kind, type |-> type, symbol |-> symbol]

\* the three ways a delivery can end: the post succeeded; requests raised a
\* RequestException (connection error, timeout, non-2xx via raise_for_status);
\* anything else was raised.
Outcomes == {"ok", "request_exception", "unexpected_exception"}

\* what send_feedback_to_nestjs logs for an outcome
LogOf(outcome) ==
    CASE outcome = "ok" -> "info_sent"
      [] outcome = "request_exception" -> "error_request"
      [] OTHER -> "error_unexpected"

\* does the exception of a delivery leave send_feedback_to_nestjs?
Escapes(outcome) == FALSE

RECURSIVE Delivered(_, _)
\* the notifications an evaluator gets to hand over, given the outcomes of its
\* deliveries: it stops at the first delivery whose exception escapes.
Delivered(notes, outs) ==
    IF notes = << >> THEN << >>
    ELSE IF Escapes(Head(outs)) THEN <<Head(notes)>>
    ELSE <<Head(notes)>> \o Delivered(Tail(notes), Tail(outs))

Aborted(notes, outs) == \E i \in 1..Len(notes) : Escapes(outs[i])

LogsOf(notes, outs) ==
    [i \in 1..Len(Delivered(notes, outs)) |-> LogOf(outs[i])]

(***************************************************************************)
(* analyze_risk                                                            *)
(***************************************************************************)
TxCost(tx) == Get(tx.amount, 0) * Get(tx.price, 0)

CashBeforeTx(pf, tx) == Get(pf.cash, 0) + TxCost(tx)

\* AllInTriggered with the threshold reached at 90% instead of above it
AllInTriggered_AtThreshold(pf, tx) ==
    /\ tx.type = "BUY"
    /\ CashBeforeTx(pf, tx) > 0
    /\ TxCost(tx) * 100 >= ALL_IN_PERCENT * CashBeforeTx(pf, tx)

AllInTriggered(pf, tx) ==
    /\ tx.type = "BUY"
    /\ CashBeforeTx(pf, tx) > 0
    /\ RatioGT(TxCost(tx), CashBeforeTx(pf, tx), ALL_IN_PERCENT, 100)

AllInNotes(pf, tx) ==
    IF AllInTriggered(pf, tx)
    THEN <<Note(pf.id, "ALL_IN", "RISK_ALERT", tx.activeSymbol)>>
    ELSE << >>

\* asset_values[symbol] = value on a dict kept in insertion order
SetValue(assets, symbol, value) ==
    IF \E i \in 1..Len(assets) : assets[i].symbol = symbol
    THEN [i \in 1..Len(assets) |->
            IF assets[i].symbol = symbol
            THEN [symbol |-> symbol, value |-> value] ELSE assets[i]]
    ELSE Append(assets, [symbol |-> symbol, value |-> value])

RECURSIVE Valuation(_, _, _, _)
\* the loop over the holdings: the total value and the per-asset values
Valuation(holdings, market, total, assets) ==
    IF holdings = << >> THEN [total |-> total, assets |-> assets]
    ELSE LET h == Head(holdings)
             present == h.activeSymbol \in DOMAIN market
             value == h.quantity * Get(market[h.activeSymbol].price, 0)
         IN IF present
            THEN Valuation(Tail(holdings), market, total + value,
                           SetValue(assets, h.activeSymbol, value))
            ELSE Valuation(Tail(holdings), market, total, assets)

PortfolioValuation(pf, market) ==
    Valuation(pf.holdings, market, Get(pf.cash, 0), << >>)

\* Concentrated with the threshold reached at 60% instead of above it
Concentrated_AtThreshold(value, total) ==
    RatioGT(value * 100, total, CONCENTRATION_PERCENT, 1)
       \/ (total # 0 /\ value * 100 = CONCENTRATION_PERCENT * total)

Concentrated(value, total) == RatioGT(value * 100, total, CONCENTRATION_PERCENT, 1)

RECURSIVE ConcentrationLoop(_, _, _)
ConcentrationLoop(assets, total, pid) ==
    IF assets = << >> THEN << >>
    ELSE (IF Concentrated(Head(assets).value, total)
          THEN <<Note(pid, "CONCENTRATION", "RISK_ALERT", Head(assets).symbol)>>
          ELSE << >>)
         \o ConcentrationLoop(Tail(assets), total, pid)

ConcentrationNotes(pf, market) ==
    LET v == PortfolioValuation(pf, market)
    IN IF v.total = 0 THEN << >>
       ELSE ConcentrationLoop(v.assets, v.total, pf.id)

\* RiskNotes with the concentration check placed before the all-in check
RiskNotes_ConcentrationFirst(pf, tx, market) ==
    ConcentrationNotes(pf, market) \o AllInNotes(pf, tx)

RiskNotes(pf, tx, market) == AllInNotes(pf, tx) \o ConcentrationNotes(pf, market)

(***************************************************************************)
(* analyze_costs_and_slippage                                              *)
(***************************************************************************)
CommissionPerMille(tx) == TxCost(tx) * SIMULATED_FEE_RATE_PER_MILLE

Slippage(tx, market) ==
    LET tx_price == Get(tx.price, 0)
        ticker == market[tx.activeSymbol]
    IN IF tx.type = "BUY"
       THEN LET best_ask == Get(ticker.best_ask, tx_price)
            IN IF tx_price > best_ask THEN tx_price - best_ask ELSE 0
       ELSE IF tx.type = "SELL"
       THEN LET best_bid == Get(ticker.best_bid, tx_price)
            IN IF tx_price < best_bid THEN best_bid - tx_price ELSE 0
       ELSE 0

\* slippage > 0 and (slippage / tx_price) raises ZeroDivisionError
CostsRaises(tx, market) ==
    /\ tx.activeSymbol \in DOMAIN market
    /\ Slippage(tx, market) > 0
    /\ Get(tx.price, 0) = 0

\* SlippageExceeds with the tolerance reached at 0.1% instead of above it
SlippageExceeds_AtTolerance(tx, market) ==
    /\ Slippage(tx, market) > 0
    /\ Get(tx.price, 0) > 0
    /\ Slippage(tx, market) * 1000 >= SLIPPAGE_TOLERANCE_PER_MILLE * Get(tx.price, 0)

SlippageExceeds(tx, market) ==
    /\ Slippage(tx, market) > 0
    /\ RatioGT(Slippage(tx, market) * 1000, Get(tx.price, 0),
               SLIPPAGE_TOLERANCE_PER_MILLE, 1)

CostNotes(tx, market) ==
    IF tx.activeSymbol \notin DOMAIN market THEN << >>
    ELSE IF SlippageExceeds(tx, market)
    THEN <<Note(tx.portafolioId, "SLIPPAGE", "COST_ANALYSIS", tx.activeSymbol)>>
    ELSE << >>

(***************************************************************************)
(* analyze_behavior                                                        *)
(***************************************************************************)
PriceChange24h(tx, market) == Get(market[tx.activeSymbol].price_percent_chg_24_h, 0)

\* BehaviorNotes with the FOMO test reached at the threshold instead of above it
BehaviorNotes_AtThreshold(tx, market) ==
    IF tx.activeSymbol \notin DOMAIN market THEN << >>
    ELSE IF tx.type = "BUY"
    THEN (IF PriceChange24h(tx, market) >= FOMO_THRESHOLD
          THEN <<Note(tx.portafolioId, "FOMO", "BEHAVIORAL_NUDGE", tx.activeSymbol)>>
          ELSE << >>)
    ELSE IF tx.type = "SELL"
    THEN (IF PriceChange24h(tx, market) < PANIC_THRESHOLD
          THEN <<Note(tx.portafolioId, "PANIC_SELL", "BEHAVIORAL_NUDGE", tx.activeSymbol)>>
          ELSE << >>)
    ELSE << >>

BehaviorNotes(tx, market) ==
    IF tx.activeSymbol \notin DOMAIN market THEN << >>
    ELSE IF tx.type = "BUY"
    THEN (IF PriceChange24h(tx, market) > FOMO_THRESHOLD
          THEN <<Note(tx.portafolioId, "FOMO", "BEHAVIORAL_NUDGE", tx.activeSymbol)>>
          ELSE << >>)
    ELSE IF tx.type = "SELL"
    THEN (IF PriceChange24h(tx, market) < PANIC_THRESHOLD
          THEN <<Note(tx.portafolioId, "PANIC_SELL", "BEHAVIORAL_NUDGE", tx.activeSymbol)>>
          ELSE << >>)
    ELSE << >>

(***************************************************************************)
(* The requests                                                            *)
(***************************************************************************)
Symbols == {"BTC", "ETH"}
TxTypes == {"BUY", "SELL", "HOLD"}
Ids == {<< >>, <<"">>, <<"p1">>}

Holdings == [activeSymbol : Symbols, quantity : {-1, 1}]
HoldingLists == UNION {[1..n -> Holdings] : n \in 0..MaxHoldings}

\* tickers that carry a price only
PriceTickers ==
    [price : {<<10>>, <<30>>}, best_ask : {<< >>}, best_bid : {<< >>},
     price_percent_chg_24_h : {<< >>}]
\* tickers with quotes and a 24h change
QuoteTickers ==
    [price : {<<10>>}, best_ask : {<< >>, <<998>>, <<999>>},
     best_bid : {<< >>, <<1001>>, <<1002>>},
     price_percent_chg_24_h : {<< >>, <<-5>>, <<0>>, <<5>>}]

Markets(tickers) == UNION {[s -> tickers] : s \in SUBSET Symbols}

\* requests that vary the portfolio: cash, holdings and the prices of the assets
RiskRequests ==
    [portafolio : [id : Ids, cash : {<<0>>, <<9>>, <<10>>}, holdings : HoldingLists],
     transaction : [type : {"BUY", "SELL"}, activeSymbol : {"BTC"},
                    price : {<< >>, <<9>>, <<91>>}, amount : {<<1>>, <<10>>},
                    portafolioId : {<<"p1">>}],
     marketData : Markets(PriceTickers)]

\* requests that vary the transaction and the quotes of the transacted asset
QuoteRequests ==
    [portafolio : [id : Ids, cash : {<<0>>, <<10>>},
                   holdings : {<< >>, <<[activeSymbol |-> "BTC", quantity |-> 1]>>}],
     transaction : [type : TxTypes, activeSymbol : {"BTC"},
                    price : {<< >>, <<-9>>, <<0>>, <<9>>, <<1000>>}, amount : {<<1>>},
                    portafolioId : {<< >>, <<"p1">>}],
     marketData : [{"BTC"} -> QuoteTickers] \cup {[s \in {} |-> 0]}]

Requests == RiskRequests \cup QuoteRequests

(***************************************************************************)
(* analyze_trade                                                           *)
(***************************************************************************)
Init ==
    /\ req \in Requests
    /\ pc = "start"
    /\ calls = << >>
    /\ attempts = << >>
    /\ log = << >>
    /\ response = "none"

\* lines 40-46: read the request, refuse a missing portfolio id
Validate ==
    /\ pc = "start"
    /\ IF Falsy(req.portafolio.id)
       THEN pc' = "done" /\ response' = "error_no_portafolio_id"
       ELSE pc' = "risk" /\ response' = response
    /\ UNCHANGED <<req, calls, attempts, log>>

\* an evaluator hands its notifications to the dispatcher, one by one
Dispatch(notes, outs, next) ==
    /\ attempts' = attempts \o Delivered(notes, outs)
    /\ log' = log \o LogsOf(notes, outs)
    /\ IF Aborted(notes, outs)
       THEN pc' = "raised" /\ response' = "exception"
       ELSE pc' = next /\ response' = (IF next = "done" THEN "analysis_queued" ELSE response)

\* line 51
AnalyzeRisk ==
    /\ pc = "risk"
    /\ calls' = Append(calls, "analyze_risk")
    /\ LET notes == RiskNotes(req.portafolio, req.transaction, req.marketData)
       IN \E outs \in [1..Len(notes) -> Outcomes] : Dispatch(notes, outs, "costs")
    /\ UNCHANGED req

\* line 54
AnalyzeCostsAndSlippage ==
    /\ pc = "costs"
    /\ calls' = Append(calls, "analyze_costs_and_slippage")
    /\ IF CostsRaises(req.transaction, req.marketData)
       THEN /\ pc' = "raised"
            /\ response' = "exception"
            /\ UNCHANGED <<attempts, log>>
       ELSE LET notes == CostNotes(req.transaction, req.marketData)
            IN \E outs \in [1..Len(notes) -> Outcomes] : Dispatch(notes, outs, "behavior")
    /\ UNCHANGED req

\* lines 57-59
AnalyzeBehavior ==
    /\ pc = "behavior"
    /\ calls' = Append(calls, "analyze_behavior")
    /\ LET notes == BehaviorNotes(req.transaction, req.marketData)
       IN \E outs \in [1..Len(notes) -> Outcomes] : Dispatch(notes, outs, "done")
    /\ UNCHANGED req

Next == Validate \/ AnalyzeRisk \/ AnalyzeCostsAndSlippage \/ AnalyzeBehavior

Spec == Init /\ [][Next]_vars

TypeOK ==
    /\ req \in Requests
    /\ pc \in {"start", "risk", "costs", "behavior", "done", "raised"}
    /\ response \in {"none", "error_no_portafolio_id", "analysis_queued", "exception"}
    /\ Len(attempts) = Len(log)

(***************************************************************************)
(* Vocabulary of the properties                                            *)
(***************************************************************************)
Pf == req.portafolio
Tx == req.transaction
Mkt == req.marketData

HasRun(evaluator) == \E i \in 1..Len(calls) : calls[i] = evaluator
Finished == pc \in {"done", "raised"}
OfKind(kind) == SelectSeq(attempts, LAMBDA n : n.kind = kind)
OfType(type) == SelectSeq(attempts, LAMBDA n : n.type = type)
SymbolsOf(notes) == [i \in 1..Len(notes) |-> notes[i].symbol]

RECURSIVE SumOver(_, _)
\* the sum of f[i] over the indices in s
SumOver(f, s) ==
    IF s = {} THEN 0
    ELSE LET i == CHOOSE j \in s : TRUE IN f[i] + SumOver(f, s \ {i})

\* value of the holding entry i: quantity * snapshot price, 0 when unvalued
Valued(i) == Pf.holdings[i].activeSymbol \in DOMAIN Mkt
EntryValue(i) ==
    IF Valued(i)
    THEN Pf.holdings[i].quantity * Get(Mkt[Pf.holdings[i].activeSymbol].price, 0)
    ELSE 0
EntryValues == [i \in 1..Len(Pf.holdings) |-> EntryValue(i)]
TotalValue == Get(Pf.cash, 0) + SumOver(EntryValues, 1..Len(Pf.holdings))
\* the value of all the entries of one symbol
SymbolValue(s) ==
    SumOver(EntryValues, {i \in 1..Len(Pf.holdings) : Pf.holdings[i].activeSymbol = s})
\* v / TotalValue * 100 > 60
Over60(v) ==
    \/ TotalValue > 0 /\ v * 100 > 60 * TotalValue
    \/ TotalValue < 0 /\ v * 100 < 60 * TotalValue
DistinctSymbols ==
    \A i, j \in 1..Len(Pf.holdings) :
        Pf.holdings[i].activeSymbol = Pf.holdings[j].activeSymbol => i = j

ClaimTxCost == Get(Tx.amount, 0) * Get(Tx.price, 0)
ClaimCashBefore == Get(Pf.cash, 0) + ClaimTxCost

\* max(0, tx_price - best_ask) for BUY, max(0, best_bid - tx_price) for SELL
ClaimSlippage ==
    LET p == Get(Tx.price, 0)
        d == IF Tx.type = "BUY" THEN p - Get(Mkt[Tx.activeSymbol].best_ask, p)
             ELSE IF Tx.type = "SELL" THEN Get(Mkt[Tx.activeSymbol].best_bid, p) - p
             ELSE 0
    IN IF d > 0 THEN d ELSE 0
ClaimChange == Get(Mkt[Tx.activeSymbol].price_percent_chg_24_h, 0)

(***************************************************************************)
(* C1                                                                      *)
(***************************************************************************)
\* C1: a request whose portafolio.id is missing or empty dispatches no
\* notification and is answered with the error payload; a request with a
\* non-empty portafolio.id has all three evaluators run.
C1_IdGate ==
    /\ (Falsy(Pf.id) /\ pc # "start") =>
          attempts = << >> /\ calls = << >> /\ response = "error_no_portafolio_id"
    /\ (~Falsy(Pf.id) /\ Finished) =>
          calls = <<"analyze_risk", "analyze_costs_and_slippage", "analyze_behavior">>

(***************************************************************************)
(* C2                                                                      *)
(***************************************************************************)
\* C2: once analyze_risk has run, an all-in RISK_ALERT has been dispatched
\* (exactly one) if and only if the transaction is a BUY, cash_before > 0 and
\* tx_cost is strictly more than 90% of cash_before; otherwise none has.  At
\* cash 10, amount 10, price 9 (exactly 90%) none is dispatched.
C2_AllIn ==
    HasRun("analyze_risk") =>
       /\ Len(OfKind("ALL_IN")) =
             (IF /\ Tx.type = "BUY"
                 /\ ClaimCashBefore > 0
                 /\ 100 * ClaimTxCost > 90 * ClaimCashBefore
              THEN 1 ELSE 0)
       /\ \A i \in 1..Len(attempts) :
             attempts[i].kind = "ALL_IN" => attempts[i].type = "RISK_ALERT"
       /\ (Pf.cash = <<10>> /\ Tx.amount = <<10>> /\ Tx.price = <<9>>) =>
             OfKind("ALL_IN") = << >>

\* a BUY of cost 91 out of 100 (91%) has produced the all-in alert
C2_Witness ==
    /\ HasRun("analyze_risk")
    /\ Tx.type = "BUY" /\ Pf.cash = <<9>> /\ Tx.amount = <<1>> /\ Tx.price = <<91>>
    /\ Len(OfKind("ALL_IN")) = 1

(***************************************************************************)
(* C3                                                                      *)
(***************************************************************************)
\* C3: for holdings with pairwise distinct symbols, once analyze_risk has run,
\* the concentration RISK_ALERTs are exactly one for each holding whose symbol
\* is in the snapshot and whose value / total * 100 > 60 (total = cash + sum of
\* the valued holdings), in the order of the holdings list, and none when
\* total = 0.
C3_Concentration ==
    (HasRun("analyze_risk") /\ DistinctSymbols) =>
       LET alerted == SelectSeq([i \in 1..Len(Pf.holdings) |-> i],
                                LAMBDA i : Valued(i) /\ Over60(EntryValue(i)))
       IN /\ SymbolsOf(OfKind("CONCENTRATION")) =
                [k \in 1..Len(alerted) |-> Pf.holdings[alerted[k]].activeSymbol]
          /\ \A i \in 1..Len(attempts) :
                attempts[i].kind = "CONCENTRATION" => attempts[i].type = "RISK_ALERT"
          /\ TotalValue = 0 => OfKind("CONCENTRATION") = << >>

\* two holdings of distinct symbols, one of them absent from the snapshot, the
\* other alerted
C3_Witness ==
    /\ HasRun("analyze_risk")
    /\ DistinctSymbols
    /\ Len(Pf.holdings) = 2
    /\ ~Valued(1) /\ Valued(2)
    /\ TotalValue > 0
    /\ SymbolsOf(OfKind("CONCENTRATION")) = <<Pf.holdings[2].activeSymbol>>

(***************************************************************************)
(* C4                                                                      *)
(***************************************************************************)
\* C4: once analyze_costs_and_slippage has run, a COST_ANALYSIS notification
\* has been dispatched (exactly one) if and only if the transacted symbol is in
\* the snapshot, slippage > 0 and slippage / tx_price > 0.001; otherwise none
\* has.  The quotient has no value at tx_price = 0, where the test is taken as
\* not satisfied.
C4_Slippage ==
    HasRun("analyze_costs_and_slippage") =>
       /\ Len(OfType("COST_ANALYSIS")) =
             (IF /\ Tx.activeSymbol \in DOMAIN Mkt
                 /\ ClaimSlippage > 0
                 /\ \/ Get(Tx.price, 0) > 0 /\ 1000 * ClaimSlippage > Get(Tx.price, 0)
                    \/ Get(Tx.price, 0) < 0 /\ 1000 * ClaimSlippage < Get(Tx.price, 0)
              THEN 1 ELSE 0)
       /\ OfType("COST_ANALYSIS") = OfKind("SLIPPAGE")

\* a SELL at 1000 against a best bid of 1002 has produced the notification
C4_Witness ==
    /\ HasRun("analyze_costs_and_slippage")
    /\ Tx.type = "SELL" /\ Tx.price = <<1000>>
    /\ Tx.activeSymbol \in DOMAIN Mkt
    /\ Mkt[Tx.activeSymbol].best_bid = <<1002>>
    /\ Len(OfType("COST_ANALYSIS")) = 1

(***************************************************************************)
(* C5                                                                      *)
(***************************************************************************)
\* C5: once analyze_behavior has run, the BEHAVIORAL_NUDGEs dispatched are:
\* one FOMO nudge for a BUY of a symbol in the snapshot whose 24h change is
\* > 0, one panic-sell nudge for a SELL of a symbol in the snapshot whose 24h
\* change is < 0, and none in every other case; at no point of a request has
\* more than one BEHAVIORAL_NUDGE been dispatched.
C5_Behavior ==
    /\ Len(OfType("BEHAVIORAL_NUDGE")) <= 1
    /\ HasRun("analyze_behavior") =>
          LET present == Tx.activeSymbol \in DOMAIN Mkt
              fomo == present /\ Tx.type = "BUY" /\ ClaimChange > 0
              panic == present /\ Tx.type = "SELL" /\ ClaimChange < 0
          IN /\ Len(OfKind("FOMO")) = (IF fomo THEN 1 ELSE 0)
             /\ Len(OfKind("PANIC_SELL")) = (IF panic THEN 1 ELSE 0)
             /\ Len(OfType("BEHAVIORAL_NUDGE")) =
                   Len(OfKind("FOMO")) + Len(OfKind("PANIC_SELL"))

\* a SELL of a symbol that fell has produced the panic-sell nudge
C5_Witness ==
    /\ HasRun("analyze_behavior")
    /\ Tx.type = "SELL"
    /\ Tx.activeSymbol \in DOMAIN Mkt
    /\ ClaimChange < 0
    /\ Len(OfKind("PANIC_SELL")) = 1
    /\ attempts[Len(attempts)].type = "BEHAVIORAL_NUDGE"

(***************************************************************************)
(* C6                                                                      *)
(***************************************************************************)
\* C6: for a request with a non-empty portafolio.id, whatever the outcome of
\* each delivery, the attempts are the notifications the three rules decide
\* from the request alone, each attempted exactly once (one log entry per
\* attempt), and analyze_trade returns {"status": "analysis_queued"}.
C6_DeliveryFailuresSwallowed ==
    (~Falsy(Pf.id) /\ Finished) =>
       /\ response = "analysis_queued"
       /\ Len(log) = Len(attempts)
       /\ attempts = RiskNotes(Pf, Tx, Mkt) \o CostNotes(Tx, Mkt) \o BehaviorNotes(Tx, Mkt)

(***************************************************************************)
(* C7                                                                      *)
(***************************************************************************)
Rank(note) ==
    CASE note.kind = "ALL_IN" -> 1
      [] note.kind = "CONCENTRATION" -> 2
      [] note.type = "COST_ANALYSIS" -> 3
      [] note.type = "BEHAVIORAL_NUDGE" -> 4
      [] OTHER -> 0

\* C7: within one request the notifications are dispatched in the order
\* all-in RISK_ALERT, concentration RISK_ALERTs, COST_ANALYSIS,
\* BEHAVIORAL_NUDGE: no notification is ever dispatched after one of a later
\* rule.
C7_DispatchOrder ==
    /\ \A i \in 1..Len(attempts) : Rank(attempts[i]) > 0
    /\ \A i, j \in 1..Len(attempts) :
          i < j => Rank(attempts[i]) <= Rank(attempts[j])
    /\ \A i \in 1..Len(attempts) :
          attempts[i].kind \in {"ALL_IN", "CONCENTRATION"} <=> attempts[i].type = "RISK_ALERT"

\* a request that produced one notification of each of the four sorts
C7_Witness ==
    /\ pc = "done"
    /\ Len(attempts) = 4
    /\ [i \in 1..4 |-> Rank(attempts[i])] = <<1, 2, 3, 4>>

(***************************************************************************)
(* C8                                                                      *)
(***************************************************************************)
\* C8: analyze_costs_and_slippage never raises: once it has been called,
\* analyze_trade is either about to call analyze_behavior or has called it and
\* returned its status.
C8_CostsNeverRaise ==
    HasRun("analyze_costs_and_slippage") =>
       \/ pc = "behavior"
       \/ pc = "done" /\ HasRun("analyze_behavior") /\ response = "analysis_queued"

(***************************************************************************)
(* C9                                                                      *)
(***************************************************************************)
\* C9: a portfolio whose total value is 0 or negative gets no concentration
\* RISK_ALERT.
C9_NoAlertUnlessPositiveTotal ==
    (HasRun("analyze_risk") /\ TotalValue <= 0) => OfKind("CONCENTRATION") = << >>

(***************************************************************************)
(* C10                                                                     *)
(***************************************************************************)
\* C10: a symbol whose holding entries together are worth more than 60% of a
\* positive total portfolio value gets a concentration RISK_ALERT, also when
\* the symbol occurs more than once in the holdings list.
C10_ShareOfAllEntries ==
    (HasRun("analyze_risk") /\ TotalValue > 0) =>
       \A s \in Symbols :
          (s \in DOMAIN Mkt /\ SymbolValue(s) * 100 > 60 * TotalValue) =>
             \E i \in 1..Len(attempts) :
                attempts[i].kind = "CONCENTRATION" /\ attempts[i].symbol = s
====
